---------------------------- MODULE Spec2Model ----------------------------
(***************************************************************************)
(* Model of the Telegram desktop client: the background coordinator        *)
(* (src/main.rs, background_loop), the presentation state machine          *)
(* (src/app.rs, TelegramApp) and the two bounded mpsc channels between     *)
(* them.                                                                   *)
(*                                                                         *)
(* The coordinator is modelled at the granularity of its await points:     *)
(* rx.recv().await, every remote call's .await, every iterator's           *)
(* next().await and every tx.send(..).await is a position of pc.  The code *)
(* between two await points runs in one step.                              *)
(*                                                                         *)
(* Abstractions.  Strings typed by the user (phone, code, password, text,  *)
(* api hash) are dropped: the adapter's answer is a free choice whatever   *)
(* they are.  A Peer is identified by its chat id, a ChatInfo by its id,   *)
(* a MessageInfo by its message id and date.  The scope is the period in   *)
(* which both channel ends are alive (the window is open), so recv() never *)
(* yields None and send() never fails.  The channel capacity and the two   *)
(* caps are the program's constants scaled down (see below).               *)
(***************************************************************************)
EXTENDS Integers, Sequences, FiniteSets, TLC

\* mpsc::channel(100) in the source; scaled down so that a full channel is reached.
ChannelCapacity == 1
\* `if chat_infos.len() >= 50 { break; }` in the source; scaled down.
DialogCap == 2
\* `iter_messages(peer).limit(50)` in the source; scaled down.
MessageLimit == 2

\* Bounds of the model: chat ids the service knows, message ids of a chat.
MaxChatId == 2
MaxMsgId == 2

ChatIds == 1..MaxChatId
MsgIds == 1..MaxMsgId

None == "None"
LoginToken == "LoginToken"
PasswordToken == "PasswordToken"

\* Error texts of the coordinator.  An adapter error e.to_string() is RemoteError.
NotConfigured == "Please configure API ID first"
NoLoginToken == "No login token found"
NoPasswordToken == "No password token found"
ChatNotFound == "Chat not found in cache"
RemoteError == "remote error"
FailedToSend == "Failed to send: remote error"
FailedToLogOut == "Failed to log out: remote error"

\* GuiAction values (app.rs).  chat_id is 0 for the variants that carry none.
Intent(t) == [type |-> t, chat_id |-> 0]
ChatIntent(t, id) == [type |-> t, chat_id |-> id]

GuiActions ==
    {Intent(t) : t \in {"Configure", "Login", "SendCode", "SendPassword",
                        "RefreshChats", "Logout", "BackToChats"}}
    \cup {ChatIntent(t, id) : t \in {"SelectChat", "SendMessage"}, id \in ChatIds}

\* BackendEvent values (app.rs).
Event(t) == [type |-> t, text |-> "", chats |-> <<>>, msgs |-> <<>>, chat |-> 0]
ErrorEvent(m) == [type |-> "Error", text |-> m, chats |-> <<>>, msgs |-> <<>>, chat |-> 0]
ChatsLoaded(cs) == [type |-> "ChatsLoaded", text |-> "", chats |-> cs, msgs |-> <<>>, chat |-> 0]
MessagesLoaded(ms) == [type |-> "MessagesLoaded", text |-> "", chats |-> <<>>, msgs |-> ms, chat |-> 0]

\* History: the field chat of an event is not in the program; it records the chat
\* whose messages a MessagesLoaded carries.
FetchedFor(ev, id) == [ev EXCEPT !.chat = id]

\* message.date(): later messages of a chat carry later (or equal) timestamps.
DateOf(id) == (id + 2) \div 2
MessageInfo(id) == [id |-> id, date |-> DateOf(id)]

\* Mutation of Reverse: the batch is sent as the adapter delivered it.
ReverseForgotten(s) == s

\* Vec::reverse, by swapping the ends inwards.
RECURSIVE Reverse(_)
Reverse(s) ==
    IF Len(s) <= 1 THEN s
    ELSE <<s[Len(s)]>> \o Reverse(SubSeq(s, 2, Len(s) - 1)) \o <<s[1]>>

\* Mutation of TrySend: a full channel drops its oldest value for the new one.
TrySendOverwrites(ch, x) ==
    IF Len(ch) < ChannelCapacity THEN Append(ch, x) ELSE Append(Tail(ch), x)

\* Sender::try_send: a full channel drops the value.
TrySend(ch, x) == IF Len(ch) < ChannelCapacity THEN Append(ch, x) ELSE ch

\* A remote call as the adapter sees it; result is Pending until it returns.
Call(op, arg) == [op |-> op, arg |-> arg, result |-> "Pending"]

\* The last call of cs has returned r.
Returned(cs, r) == [cs EXCEPT ![Len(cs)].result = r]

VARIABLES
    gui_tx,          \* channel of GuiAction, presentation -> coordinator
    bg_tx,           \* channel of BackendEvent, coordinator -> presentation
    pc,              \* the await point the coordinator is at
    action,          \* the GuiAction being handled
    login_token,     \* BackgroundState.login_token
    password_token,  \* BackgroundState.password_token
    chat_map,        \* BackgroundState.chat_map: its key set (a key maps to its peer)
    chat_infos,      \* local Vec of the RefreshChats arm
    msgs,            \* local Vec of the SelectChat / SendMessage arms
    out,             \* the event of the pending tx.send
    state,           \* TelegramApp.state
    chats,           \* TelegramApp.chats
    messages,        \* TelegramApp.messages
    selected_chat,   \* TelegramApp.selected_chat (0 for None)
    messages_chat,   \* history: the chat TelegramApp.messages was fetched for (0 when cleared)
    calls,           \* history: remote calls made while handling `action`
    emitted,         \* history: events sent while handling `action`
    pre,             \* history: coordinator state when `action` was dequeued
    delivered,       \* history: what the adapter's iterator yielded to the listing or fetch under way
    login_spent,     \* history: the held login token was given to a sign_in that returned
    auth             \* history: the section 4.2 table folded over the handled intents

coord == <<pc, action, login_token, password_token, chat_map, chat_infos, msgs, out>>
gui == <<state, chats, messages, selected_chat, messages_chat>>
hist == <<calls, emitted, pre, delivered, login_spent, auth>>
vars == <<gui_tx, bg_tx, coord, gui, hist>>

Snapshot == [login_token |-> login_token, password_token |-> password_token,
             chat_map |-> chat_map, auth |-> auth]

\* Mutation of CacheHit: the lookup result is taken without the miss check.
CacheHitUnchecked(id) == TRUE

\* Mutation of CacheInsert: the peer is listed but not put into the map.
CacheInsertSkipped(id) == chat_map

\* state.chat_map.get(&chat_id) is Some(peer)
CacheHit(id) == id \in chat_map

\* state.chat_map.insert(id.clone(), chat.clone())
CacheInsert(id) == chat_map \cup {id}

Init ==
    /\ gui_tx = <<>>
    /\ bg_tx = <<>>
    /\ pc = "wait_config"
    /\ action = Intent(None)
    /\ login_token = None
    /\ password_token = None
    /\ chat_map = {}
    /\ chat_infos = <<>>
    /\ msgs = <<>>
    /\ out = Event(None)
    /\ state = "Configuration"
    /\ chats = <<>>
    /\ messages = <<>>
    /\ selected_chat = 0
    /\ messages_chat = 0
    /\ calls = <<>>
    /\ emitted = <<>>
    /\ pre = [login_token |-> None, password_token |-> None, chat_map |-> {},
              auth |-> "Unconfigured"]
    /\ delivered = <<>>
    /\ login_spent = FALSE
    /\ auth = "Unconfigured"


-----------------------------------------------------------------------------
(* Section 4.2 of the specification: the transition table, as a function of   *)
(* the table state, the intent handled and the outcome of its remote call.    *)
(* It is the reference the coordinator is compared with; `auth` folds it.     *)
TableListed(st, intent) ==
    \/ st = "Unconfigured" /\ intent = "Configure"
    \/ st = "AwaitingPhone" /\ intent = "Login"
    \/ st = "AwaitingCode" /\ intent = "SendCode"
    \/ st = "AwaitingPassword" /\ intent = "SendPassword"
    \/ st = "Authenticated" /\ intent = "Logout"

TableStep(st, intent, outcome) ==
    CASE st = "Unconfigured" /\ intent = "Configure" -> "AwaitingPhone"
      [] st = "AwaitingPhone" /\ intent = "Login" /\ outcome = "Ok" -> "AwaitingCode"
      [] st = "AwaitingCode" /\ intent = "SendCode" /\ outcome = "Ok" -> "Authenticated"
      [] st = "AwaitingCode" /\ intent = "SendCode" /\ outcome = "PasswordRequired"
            -> "AwaitingPassword"
      [] st = "AwaitingPassword" /\ intent = "SendPassword" /\ outcome = "Ok"
            -> "Authenticated"
      [] st = "Authenticated" /\ intent = "Logout" /\ outcome = "Ok" -> "AwaitingPhone"
      [] OTHER -> st

-----------------------------------------------------------------------------
(* The coordinator: background_loop.                                          *)

\* Mutation of Dequeue: the next intent is taken wherever the coordinator is, as
\* if every handling ran in a task of its own.
DequeueWhileBusy(at) ==
    /\ gui_tx # <<>>
    /\ gui_tx' = Tail(gui_tx)
    /\ action' = Head(gui_tx)
    /\ pre' = Snapshot
    /\ emitted' = <<>>

\* rx.recv().await yields the head of the channel; a new handling starts.
Dequeue(at) ==
    /\ pc = at
    /\ gui_tx # <<>>
    /\ gui_tx' = Tail(gui_tx)
    /\ action' = Head(gui_tx)
    /\ pre' = Snapshot
    /\ emitted' = <<>>

\* Mutation of SendNext: an Error ends background_loop instead of being sent.
SendNextReturnsOnError(at, ev) ==
    /\ pc' = IF ev.type = "Error" THEN "returned" ELSE at
    /\ out' = ev

\* The step ends at a tx.send(ev).await.
SendNext(at, ev) ==
    /\ pc' = at
    /\ out' = ev

\* 1. Wait for configuration: any other intent is answered with an Error.
WaitConfig ==
    /\ Dequeue("wait_config")
    /\ calls' = <<>>
    /\ IF Head(gui_tx).type = "Configure"
       THEN \* BackgroundState { login_token: None, password_token: None, chat_map: new }
            /\ login_token' = None
            /\ password_token' = None
            /\ chat_map' = {}
            /\ SendNext("send_configured", Event("Configured"))
            /\ auth' = TableStep(auth, "Configure", "Ok")
       ELSE /\ SendNext("send_not_configured", ErrorEvent(NotConfigured))
            /\ UNCHANGED <<login_token, password_token, chat_map, auth>>
    /\ UNCHANGED <<bg_tx, chat_infos, msgs, gui, delivered, login_spent>>

\* Mutation of AfterSend: the configuration loop is left after the Error reply.
AfterSendLeavesConfigLoop(at) == IF at = "send_configured" THEN "is_authorized" ELSE "recv"

\* Where the coordinator goes on after a tx.send(..).await completes.
AfterSend(at) ==
    CASE at = "send_not_configured" -> "wait_config"
      [] at = "send_configured" -> "is_authorized"
      [] at = "send_logged_in" -> "recv"
      [] at = "send" -> "recv"

\* tx.send(event).await: completes once the bounded channel has room.
SendEvent ==
    /\ pc \in {"send_not_configured", "send_configured", "send_logged_in", "send"}
    /\ Len(bg_tx) < ChannelCapacity
    /\ bg_tx' = Append(bg_tx, out)
    /\ emitted' = Append(emitted, out)
    /\ out' = Event(None)
    /\ pc' = AfterSend(pc)
    /\ delivered' = <<>>
    /\ UNCHANGED <<gui_tx, action, login_token, password_token, chat_map, chat_infos,
                   msgs, gui, calls, pre, login_spent, auth>>

\* Mutation of Authorized: a failed query counts as authorized.
AuthorizedUnlessFalse(r) == r # "false"

\* if let Ok(true) = client.is_authorized().await
Authorized(r) == r = "true"

IsAuthorized ==
    /\ pc = "is_authorized"
    /\ \E r \in {"true", "false", "Err"} :
          /\ calls' = Returned(Append(calls, Call("is_authorized", 0)), r)
          /\ IF Authorized(r)
             THEN /\ SendNext("send_logged_in", Event("LoggedIn"))
                  /\ auth' = "Authenticated"
             ELSE /\ pc' = "recv"
                  /\ UNCHANGED <<out, auth>>
    /\ UNCHANGED <<gui_tx, bg_tx, action, login_token, password_token, chat_map,
                   chat_infos, msgs, gui, emitted, pre, delivered, login_spent>>

\* GuiAction::Login(phone) => client.request_login_code(..).await
Login ==
    /\ Dequeue("recv")
    /\ Head(gui_tx).type = "Login"
    /\ pc' = "request_login_code"
    /\ calls' = <<Call("request_login_code", 0)>>
    /\ UNCHANGED <<bg_tx, login_token, password_token, chat_map, chat_infos, msgs, out,
                   gui, delivered, login_spent, auth>>

RequestLoginCodeReturns ==
    /\ pc = "request_login_code"
    /\ \E r \in {"Ok", "Err"} :
          /\ auth' = TableStep(auth, "Login", r)
          /\ calls' = Returned(calls, r)
          /\ IF r = "Ok"
             THEN /\ login_token' = LoginToken
                  /\ login_spent' = FALSE
                  /\ SendNext("send", Event("CodeSent"))
             ELSE /\ SendNext("send", ErrorEvent(RemoteError))
                  /\ UNCHANGED <<login_token, login_spent>>
    /\ UNCHANGED <<gui_tx, bg_tx, action, password_token, chat_map, chat_infos, msgs,
                   gui, emitted, pre, delivered>>

\* GuiAction::SendCode(code) => if let Some(token) = &state.login_token
SendCode ==
    /\ Dequeue("recv")
    /\ Head(gui_tx).type = "SendCode"
    /\ IF login_token # None
       THEN /\ pc' = "sign_in"
            /\ calls' = <<Call("sign_in", login_token)>>
            /\ UNCHANGED out
       ELSE /\ SendNext("send", ErrorEvent(NoLoginToken))
            /\ calls' = <<>>
    /\ UNCHANGED <<bg_tx, login_token, password_token, chat_map, chat_infos, msgs,
                   gui, delivered, login_spent, auth>>

SignInReturns ==
    /\ pc = "sign_in"
    /\ login_spent' = TRUE
    /\ \E r \in {"Ok", "PasswordRequired", "Err"} :
          /\ auth' = TableStep(auth, "SendCode", r)
          /\ calls' = Returned(calls, r)
          /\ CASE r = "Ok" ->
                    /\ SendNext("send", Event("LoggedIn"))
                    /\ UNCHANGED password_token
               [] r = "PasswordRequired" ->
                    /\ password_token' = PasswordToken
                    /\ SendNext("send", Event("PasswordRequired"))
               [] r = "Err" ->
                    /\ SendNext("send", ErrorEvent(RemoteError))
                    /\ UNCHANGED password_token
    /\ UNCHANGED <<gui_tx, bg_tx, action, login_token, chat_map, chat_infos, msgs,
                   gui, emitted, pre, delivered>>

\* Mutation of Take: the token is borrowed and stays in the state.
TakeLeavesToken(token) == token

\* Option::take(): what is left in state.password_token.
Take(token) == None

\* GuiAction::SendPassword(password) => if let Some(ptoken) = state.password_token.take()
SendPassword ==
    /\ Dequeue("recv")
    /\ Head(gui_tx).type = "SendPassword"
    /\ password_token' = Take(password_token)
    /\ IF password_token # None
       THEN /\ pc' = "check_password"
            /\ calls' = <<Call("check_password", password_token)>>
            /\ UNCHANGED out
       ELSE /\ SendNext("send", ErrorEvent(NoPasswordToken))
            /\ calls' = <<>>
    /\ UNCHANGED <<bg_tx, login_token, chat_map, chat_infos, msgs, gui, delivered,
                   login_spent, auth>>

CheckPasswordReturns ==
    /\ pc = "check_password"
    /\ \E r \in {"Ok", "Err"} :
          /\ auth' = TableStep(auth, "SendPassword", r)
          /\ calls' = Returned(calls, r)
          /\ IF r = "Ok"
             THEN SendNext("send", Event("LoggedIn"))
             ELSE SendNext("send", ErrorEvent(RemoteError))
    /\ UNCHANGED <<gui_tx, bg_tx, action, login_token, password_token, chat_map,
                   chat_infos, msgs, gui, emitted, pre, delivered, login_spent>>

\* ChatInfo { name, id }: identified by its id.
ChatInfo(id) == [id |-> id]

ChatInfoIds(cs) == {cs[i].id : i \in 1..Len(cs)}

\* GuiAction::RefreshChats => let mut chat_infos = Vec::new(); client.iter_dialogs()
RefreshChats ==
    /\ Dequeue("recv")
    /\ Head(gui_tx).type = "RefreshChats"
    /\ chat_infos' = <<>>
    /\ pc' = "iter_dialogs"
    /\ calls' = <<Call("iter_dialogs", 0)>>
    /\ UNCHANGED <<bg_tx, login_token, password_token, chat_map, msgs, out, gui,
                   delivered, login_spent, auth>>

\* dialogs.next().await yields Ok(Some(dialog)): a peer not yet listed by this iteration.
DialogsNext ==
    /\ pc = "iter_dialogs"
    /\ \E id \in ChatIds \ ChatInfoIds(chat_infos) :
          /\ chat_map' = CacheInsert(id)
          /\ delivered' = Append(delivered, id)
          /\ IF Len(chat_infos) + 1 >= DialogCap
             THEN \* break; the Vec moves into the event and the iterator is dropped
                  /\ SendNext("send", ChatsLoaded(Append(chat_infos, ChatInfo(id))))
                  /\ chat_infos' = <<>>
                  /\ calls' = Returned(calls, "Done")
             ELSE /\ chat_infos' = Append(chat_infos, ChatInfo(id))
                  /\ UNCHANGED <<pc, out, calls>>
    /\ UNCHANGED <<gui_tx, bg_tx, action, login_token, password_token, msgs, gui,
                   emitted, pre, login_spent, auth>>

\* Mutation of DialogsEndEvent: a failed iteration is reported as an Error.
DialogsFailureReported(r, cs) ==
    IF r = "Err" THEN ErrorEvent(RemoteError) ELSE ChatsLoaded(cs)

\* After the while let loop: tx.send(BackendEvent::ChatsLoaded(chat_infos)),
\* whether the loop ended on Ok(None) or on Err(_).
DialogsEndEvent(r, cs) == ChatsLoaded(cs)

\* dialogs.next().await yields Ok(None) or Err(_): the while let loop ends.
DialogsEnd ==
    /\ pc = "iter_dialogs"
    /\ \E r \in {"Done", "Err"} :
          /\ SendNext("send", DialogsEndEvent(r, chat_infos))
          /\ calls' = Returned(calls, r)
    /\ chat_infos' = <<>>
    /\ UNCHANGED <<gui_tx, bg_tx, action, login_token, password_token, chat_map, msgs,
                   gui, emitted, pre, delivered, login_spent, auth>>

\* GuiAction::SelectChat(chat_id) => if let Some(peer) = state.chat_map.get(&chat_id)
SelectChat ==
    /\ Dequeue("recv")
    /\ Head(gui_tx).type = "SelectChat"
    /\ IF CacheHit(Head(gui_tx).chat_id)
       THEN /\ msgs' = <<>>
            /\ pc' = "iter_messages"
            /\ calls' = <<Call("iter_messages", Head(gui_tx).chat_id)>>
            /\ UNCHANGED out
       ELSE /\ SendNext("send", ErrorEvent(ChatNotFound))
            /\ calls' = <<>>
            /\ UNCHANGED msgs
    /\ UNCHANGED <<bg_tx, login_token, password_token, chat_map, chat_infos, gui,
                   delivered, login_spent, auth>>

\* messages.next().await yields Ok(Some(message)): the next older message.  The
\* iterator was built with limit(MessageLimit) and yields no more than that.
MessagesNext ==
    /\ pc = "iter_messages"
    /\ Len(msgs) < MessageLimit
    /\ \E id \in MsgIds :
          /\ IF msgs = <<>> THEN TRUE ELSE id < msgs[Len(msgs)].id
          /\ msgs' = Append(msgs, MessageInfo(id))
    /\ UNCHANGED <<gui_tx, bg_tx, pc, action, login_token, password_token, chat_map,
                   chat_infos, out, gui, hist>>

\* messages.next().await yields Ok(None) or Err(_): msgs.reverse(); send MessagesLoaded.
MessagesEnd ==
    /\ pc = "iter_messages"
    /\ delivered' = msgs
    /\ SendNext("send", FetchedFor(MessagesLoaded(Reverse(msgs)), action.chat_id))
    /\ msgs' = <<>>
    /\ calls' = Returned(calls, "Done")
    /\ UNCHANGED <<gui_tx, bg_tx, action, login_token, password_token, chat_map,
                   chat_infos, gui, emitted, pre, login_spent, auth>>

\* GuiAction::SendMessage { chat_id, text } => if let Some(peer) = ... (no else arm)
SendMessage ==
    /\ Dequeue("recv")
    /\ Head(gui_tx).type = "SendMessage"
    /\ IF CacheHit(Head(gui_tx).chat_id)
       THEN /\ pc' = "send_message"
            /\ calls' = <<Call("send_message", Head(gui_tx).chat_id)>>
       ELSE /\ pc' = "recv"
            /\ calls' = <<>>
    /\ UNCHANGED <<bg_tx, login_token, password_token, chat_map, chat_infos, msgs, out,
                   gui, delivered, login_spent, auth>>

\* Mutation of RefetchAfterSend: the messages are fetched whatever the send returned.
RefetchAlways(r) == TRUE

\* match client.send_message(peer, text).await: the Ok(_) arm refetches.
RefetchAfterSend(r) == r = "Ok"

SendMessageReturns ==
    /\ pc = "send_message"
    /\ \E r \in {"Ok", "Err"} :
          IF RefetchAfterSend(r)
          THEN \* Refresh messages
               /\ msgs' = <<>>
               /\ pc' = "iter_messages"
               /\ calls' = Append(Returned(calls, r), Call("iter_messages", action.chat_id))
               /\ UNCHANGED out
          ELSE /\ SendNext("send", ErrorEvent(FailedToSend))
               /\ calls' = Returned(calls, r)
               /\ UNCHANGED msgs
    /\ UNCHANGED <<gui_tx, bg_tx, action, login_token, password_token, chat_map,
                   chat_infos, gui, emitted, pre, delivered, login_spent, auth>>

\* GuiAction::Logout => client.sign_out().await
Logout ==
    /\ Dequeue("recv")
    /\ Head(gui_tx).type = "Logout"
    /\ pc' = "sign_out"
    /\ calls' = <<Call("sign_out", 0)>>
    /\ UNCHANGED <<bg_tx, login_token, password_token, chat_map, chat_infos, msgs, out,
                   gui, delivered, login_spent, auth>>

\* Mutation of SignedOut: the state is cleared whatever sign_out returned.
SignedOutAssumed(r) == TRUE

\* match client.sign_out().await: the Ok(_) arm clears the state.
SignedOut(r) == r = "Ok"

SignOutReturns ==
    /\ pc = "sign_out"
    /\ \E r \in {"Ok", "Err"} :
          /\ auth' = TableStep(auth, "Logout", r)
          /\ calls' = Returned(calls, r)
          /\ IF SignedOut(r)
             THEN /\ login_token' = None
                  /\ password_token' = None
                  /\ chat_map' = {}
                  /\ login_spent' = FALSE
                  /\ SendNext("send", Event("LoggedOut"))
             ELSE /\ SendNext("send", ErrorEvent(FailedToLogOut))
                  /\ UNCHANGED <<login_token, password_token, chat_map, login_spent>>
    /\ UNCHANGED <<gui_tx, bg_tx, action, chat_infos, msgs, gui, emitted, pre,
                   delivered>>

\* _ => {}: Configure and BackToChats in the main loop.
Ignore ==
    /\ Dequeue("recv")
    /\ Head(gui_tx).type \in {"Configure", "BackToChats"}
    /\ calls' = <<>>
    /\ UNCHANGED <<bg_tx, pc, login_token, password_token, chat_map, chat_infos, msgs,
                   out, gui, delivered, login_spent, auth>>

Coordinator ==
    \/ WaitConfig
    \/ SendEvent
    \/ IsAuthorized
    \/ Login
    \/ RequestLoginCodeReturns
    \/ SendCode
    \/ SignInReturns
    \/ SendPassword
    \/ CheckPasswordReturns
    \/ RefreshChats
    \/ DialogsNext
    \/ DialogsEnd
    \/ SelectChat
    \/ MessagesNext
    \/ MessagesEnd
    \/ SendMessage
    \/ SendMessageReturns
    \/ Logout
    \/ SignOutReturns
    \/ Ignore

-----------------------------------------------------------------------------
(* The coordinator on its own: any intent may enter the inbound channel while *)
(* it has room, and the events are taken from the outbound channel.           *)

Enqueue ==
    /\ Len(gui_tx) < ChannelCapacity
    /\ \E a \in GuiActions : gui_tx' = Append(gui_tx, a)
    /\ UNCHANGED <<bg_tx, coord, gui, hist>>

Drain ==
    /\ bg_tx # <<>>
    /\ bg_tx' = Tail(bg_tx)
    /\ UNCHANGED <<gui_tx, coord, gui, hist>>

Next ==
    \/ Coordinator
    \/ Enqueue
    \/ Drain

Spec == Init /\ [][Next]_vars

\* The same, under the two provisos of the liveness properties: every remote call
\* returns and every tx.send completes once there is room (the coordinator's
\* task keeps being scheduled), and the events keep being taken.
FairSpec == Spec /\ WF_vars(Coordinator) /\ WF_vars(Drain)

-----------------------------------------------------------------------------
(* The presentation: TelegramApp.  A frame (update) drains the events with    *)
(* try_recv and then reacts to at most one click; the coordinator runs on     *)
(* another thread, so each try_recv and each click is a step of its own.      *)

\* handle_backend_events: one iteration of `while let Ok(event) = self.rx.try_recv()`.
HandleBackendEvent ==
    /\ bg_tx # <<>>
    /\ bg_tx' = Tail(bg_tx)
    /\ LET event == Head(bg_tx) IN
       CASE event.type = "Configured" ->
                /\ state' = "LoginPhone"
                /\ UNCHANGED <<gui_tx, chats, messages, selected_chat, messages_chat>>
         [] event.type = "CodeSent" ->
                /\ state' = "LoginCode"
                /\ UNCHANGED <<gui_tx, chats, messages, selected_chat, messages_chat>>
         [] event.type = "PasswordRequired" ->
                /\ state' = "LoginPassword"
                /\ UNCHANGED <<gui_tx, chats, messages, selected_chat, messages_chat>>
         [] event.type = "LoggedIn" ->
                /\ state' = "LoggedIn"
                /\ gui_tx' = TrySend(gui_tx, Intent("RefreshChats"))
                /\ UNCHANGED <<chats, messages, selected_chat, messages_chat>>
         [] event.type = "ChatsLoaded" ->
                /\ chats' = event.chats
                /\ UNCHANGED <<gui_tx, state, messages, selected_chat, messages_chat>>
         [] event.type = "MessagesLoaded" ->
                /\ messages' = event.msgs
                /\ messages_chat' = event.chat
                /\ UNCHANGED <<gui_tx, state, chats, selected_chat>>
         [] event.type = "LoggedOut" ->
                /\ state' = "LoginPhone"
                /\ chats' = <<>>
                /\ messages' = <<>>
                /\ messages_chat' = 0
                /\ selected_chat' = 0
                /\ UNCHANGED gui_tx
         [] event.type = "Error" ->
                UNCHANGED <<gui_tx, state, chats, messages, selected_chat, messages_chat>>
    /\ UNCHANGED <<coord, hist>>

\* A button whose only effect is a try_send of an intent.
Click(st, intent) ==
    /\ state = st
    /\ gui_tx' = TrySend(gui_tx, intent)
    /\ UNCHANGED <<bg_tx, coord, gui, hist>>

\* "Save Configuration", with an API ID that parses.
ClickSaveConfiguration == Click("Configuration", Intent("Configure"))

\* "Send Code"
ClickSendCode == Click("LoginPhone", Intent("Login"))

\* "Sign In"
ClickSignIn == Click("LoginCode", Intent("SendCode"))

\* "Verify Password"
ClickVerifyPassword == Click("LoginPassword", Intent("SendPassword"))

\* "Back"
ClickBack ==
    /\ state = "LoggedIn"
    /\ selected_chat # 0
    /\ selected_chat' = 0
    /\ messages' = <<>>
    /\ messages_chat' = 0
    /\ gui_tx' = TrySend(gui_tx, Intent("BackToChats"))
    /\ UNCHANGED <<bg_tx, coord, state, chats, hist>>

\* "Send", with a non-empty text.
ClickSend ==
    /\ selected_chat # 0
    /\ Click("LoggedIn", ChatIntent("SendMessage", selected_chat))

\* "Refresh Chats"
ClickRefreshChats ==
    /\ selected_chat = 0
    /\ Click("LoggedIn", Intent("RefreshChats"))

\* "Logout"
ClickLogout ==
    /\ selected_chat = 0
    /\ Click("LoggedIn", Intent("Logout"))

\* The button of a chat of the list.
ClickChat ==
    /\ state = "LoggedIn"
    /\ selected_chat = 0
    /\ \E i \in 1..Len(chats) :
          /\ selected_chat' = chats[i].id
          /\ gui_tx' = TrySend(gui_tx, ChatIntent("SelectChat", chats[i].id))
    /\ UNCHANGED <<bg_tx, coord, state, chats, messages, messages_chat, hist>>

User ==
    \/ ClickSaveConfiguration
    \/ ClickSendCode
    \/ ClickSignIn
    \/ ClickVerifyPassword
    \/ ClickBack
    \/ ClickSend
    \/ ClickRefreshChats
    \/ ClickLogout
    \/ ClickChat

AppNext ==
    \/ Coordinator
    \/ HandleBackendEvent
    \/ User

\* The whole program: coordinator and presentation.
AppSpec == Init /\ [][AppNext]_vars

\* The coordinator's task is scheduled and its remote calls return; the
\* presentation keeps rendering frames.  The user may stop clicking.
FairAppSpec == AppSpec /\ WF_vars(Coordinator) /\ WF_vars(HandleBackendEvent)

-----------------------------------------------------------------------------
(* Properties of the coordinator.                                             *)

\* The handling of `action` is complete: the coordinator is back at rx.recv().
Completed(t) == pc = "recv" /\ action.type = t

\* The events of the handling of `action`: those sent and the one being sent.
LastEmitted(t) == emitted # <<>> /\ emitted[Len(emitted)].type = t

Produced == IF out.type = None THEN emitted ELSE Append(emitted, out)

CallOps == {calls[i].op : i \in 1..Len(calls)}

\* The remote calls of the section 4.2 table.
AuthOps == {"request_login_code", "sign_in", "check_password", "sign_out"}

NonDecreasingDates(ms) ==
    \A i \in 1..Len(ms) : \A j \in i..Len(ms) : ms[i].date <= ms[j].date

\* C1: the coordinator follows the section 4.2 table folded over the handled
\* intents: it holds a login token only in AwaitingCode and a password token only
\* in AwaitingPassword, and an intent issues a remote call of the table only when
\* the table lists that intent for the state it is handled in.
C1_FollowsTable ==
    /\ login_token # None => auth = "AwaitingCode"
    /\ password_token # None => auth = "AwaitingPassword"
    /\ CallOps \cap AuthOps # {} => TableListed(pre.auth, action.type)

\* C2: the login token is single-use: once sign_in has returned for a SendCode the
\* coordinator no longer holds the token, and sign_in is never called with a token
\* that an earlier sign_in has already consumed; after a password-required outcome
\* the password token is held.
C2_LoginTokenSingleUse ==
    /\ (action.type = "SendCode" /\ pc \in {"send", "recv"} /\ calls # <<>>)
          => login_token = None
    /\ pc = "sign_in" => ~login_spent
    /\ (action.type = "SendCode" /\ pc \in {"send", "recv"} /\ calls # <<>>
            /\ calls[1].result = "PasswordRequired")
          => password_token = PasswordToken

\* C3: a SelectChat whose id is not a key of the chat cache makes no remote call,
\* leaves the cache and both tokens as they were, and emits exactly one event, an
\* Error (so no MessagesLoaded), however often it is repeated; the Error is "chat
\* not found" once the coordinator is configured.
C3_SelectChatMiss ==
    (action.type = "SelectChat" /\ action.chat_id \notin pre.chat_map)
        => /\ calls = <<>>
           /\ chat_map = pre.chat_map
           /\ login_token = pre.login_token
           /\ password_token = pre.password_token
           /\ Produced = <<ErrorEvent(IF pre.auth = "Unconfigured" THEN NotConfigured
                                      ELSE ChatNotFound)>>
           /\ pc \in {"send_not_configured", "wait_config", "send", "recv"}

C3_Witness ==
    /\ Completed("SelectChat")
    /\ action.chat_id \notin pre.chat_map
    /\ pre.chat_map # {}
    /\ emitted # <<>>

\* C4: a SendMessage whose chat id is not a key of the chat cache emits the "chat
\* not found" Error, makes no remote call and changes no coordinator state.
C4_SendMessageMiss ==
    (Completed("SendMessage") /\ action.chat_id \notin pre.chat_map)
        => /\ emitted = <<ErrorEvent(ChatNotFound)>>
           /\ calls = <<>>
           /\ chat_map = pre.chat_map
           /\ login_token = pre.login_token
           /\ password_token = pre.password_token

\* C5: for a SendMessage on a cached chat id, MessagesLoaded is emitted iff the
\* remote send succeeded: a failed send gives exactly one Error event and no
\* message fetch; a successful send gives exactly one MessagesLoaded event, from a
\* fetch of that same chat made after the send, and no Error.
C5_SendMessageHit ==
    (Completed("SendMessage") /\ action.chat_id \in pre.chat_map)
        => /\ calls[1].op = "send_message"
           /\ calls[1].arg = action.chat_id
           /\ calls[1].result \in {"Ok", "Err"}
           /\ calls[1].result = "Err" =>
                 /\ Len(calls) = 1
                 /\ emitted = <<ErrorEvent(FailedToSend)>>
           /\ calls[1].result = "Ok" =>
                 /\ Len(calls) = 2
                 /\ calls[2].op = "iter_messages"
                 /\ calls[2].arg = action.chat_id
                 /\ Len(emitted) = 1
                 /\ emitted[1].type = "MessagesLoaded"

C5_Witness ==
    /\ Completed("SendMessage")
    /\ action.chat_id \in pre.chat_map
    /\ calls[1].result = "Err"
    /\ emitted # <<>>

\* C6: every chat id of the ChatsLoaded event of a RefreshChats is a key of the chat
\* cache once that event is produced, and a SelectChat handled next for such an id
\* takes the hit path (it starts the message fetch).
C6_SummaryInCache ==
    /\ [](action.type = "RefreshChats" /\ Produced # <<>>
            => ChatInfoIds(Produced[1].chats) \subseteq chat_map)
    /\ [][(/\ Completed("RefreshChats")
           /\ action'.type = "SelectChat"
           /\ action'.chat_id \in ChatInfoIds(emitted[1].chats))
          => (pc' = "iter_messages" /\ calls' = <<Call("iter_messages", action'.chat_id)>>)]_vars

C6_Witness ==
    /\ Completed("RefreshChats")
    /\ gui_tx # <<>>
    /\ Head(gui_tx).type = "SelectChat"
    /\ Head(gui_tx).chat_id \in ChatInfoIds(emitted[1].chats)
    /\ Len(emitted[1].chats) = DialogCap

\* C7: every MessagesLoaded batch is the messages the adapter delivered (newest
\* first, at most MessageLimit of them) in reverse order, so it is oldest-first and
\* its timestamps are non-decreasing; this holds for the batch of a SelectChat and
\* for the batch of the re-fetch after a SendMessage.
C7_OldestFirst ==
    /\ out.type = "MessagesLoaded" =>
          /\ Len(out.msgs) = Len(delivered)
          /\ Len(out.msgs) <= MessageLimit
          /\ \A i \in 1..Len(delivered) : out.msgs[i] = delivered[Len(delivered) + 1 - i]
          /\ action.type \in {"SelectChat", "SendMessage"}
    /\ \A i \in 1..Len(bg_tx) :
          bg_tx[i].type = "MessagesLoaded" => NonDecreasingDates(bg_tx[i].msgs)
    /\ NonDecreasingDates(out.msgs)

C7_Witness ==
    /\ bg_tx # <<>>
    /\ bg_tx[1].type = "MessagesLoaded"
    /\ Len(bg_tx[1].msgs) = MessageLimit
    /\ bg_tx[1].msgs[1].date < bg_tx[1].msgs[2].date
    /\ action.type = "SendMessage"

\* C9: until a Configure has been received, every intent dequeued is answered with
\* exactly one "not configured" Error: no remote call is made, nothing of it is
\* kept, and no other event is emitted.
C9_NotConfigured ==
    auth = "Unconfigured"
        => /\ calls = <<>>
           /\ login_token = None /\ password_token = None /\ chat_map = {}
           /\ \A i \in 1..Len(bg_tx) : bg_tx[i] = ErrorEvent(NotConfigured)
           /\ action.type # None =>
                 /\ action.type # "Configure"
                 /\ Produced = <<ErrorEvent(NotConfigured)>>
                 /\ pc \in {"send_not_configured", "wait_config"}

C9_Witness ==
    /\ auth = "Unconfigured"
    /\ pc = "wait_config"
    /\ action.type = "Login"
    /\ emitted = <<ErrorEvent(NotConfigured)>>

\* C10: a SendCode handled while the authentication state is not AwaitingCode is
\* refused: no sign_in call is made and one Error event is emitted.
C10_SendCodeRefused ==
    (action.type = "SendCode" /\ pre.auth # "AwaitingCode")
        => /\ "sign_in" \notin CallOps
           /\ Len(Produced) = 1
           /\ Produced[1].type = "Error"

\* C11: Logout: when sign_out succeeds both tokens are none, the chat cache is
\* empty and exactly one event, LoggedOut, is emitted; when sign_out fails exactly
\* one event, an Error, is emitted and the tokens and the cache are unchanged.
C11_Logout ==
    (action.type = "Logout" /\ pc \in {"send", "recv"} /\ calls # <<>>)
        => /\ calls[1].result \in {"Ok", "Err"}
           /\ calls[1].result = "Ok" =>
                 /\ login_token = None
                 /\ password_token = None
                 /\ chat_map = {}
                 /\ Produced = <<Event("LoggedOut")>>
           /\ calls[1].result = "Err" =>
                 /\ login_token = pre.login_token
                 /\ password_token = pre.password_token
                 /\ chat_map = pre.chat_map
                 /\ Produced = <<ErrorEvent(FailedToLogOut)>>

C11_Witness ==
    /\ Completed("Logout")
    /\ calls # <<>>
    /\ calls[1].result = "Err"
    /\ pre.chat_map # {}
    /\ pre.login_token # None
    /\ emitted # <<>>

\* A step in which the coordinator takes an intent out of the inbound channel.
Dequeued == Len(gui_tx') < Len(gui_tx)

\* A step in which an event enters the outbound channel.
Emitted == Len(bg_tx') > Len(bg_tx)

\* The events the handling of an intent of type t may answer with.
Answers(t) ==
    CASE t = "Configure" -> {"Configured", "LoggedIn"}
      [] t = "Login" -> {"CodeSent", "Error"}
      [] t = "SendCode" -> {"LoggedIn", "PasswordRequired", "Error"}
      [] t = "SendPassword" -> {"LoggedIn", "Error"}
      [] t = "RefreshChats" -> {"ChatsLoaded", "Error"}
      [] t = "SelectChat" -> {"MessagesLoaded", "Error"}
      [] t = "SendMessage" -> {"MessagesLoaded", "Error"}
      [] t = "Logout" -> {"LoggedOut", "Error"}
      [] OTHER -> {"Error"}

\* The remote calls of the handling under way that have not returned.
Outstanding == {i \in 1..Len(calls) : calls[i].result = "Pending"}

C15_ReplaceOnRefresh ==
    (Completed("RefreshChats") /\ LastEmitted("ChatsLoaded"))
        => chat_map = ChatInfoIds(emitted[1].chats)

\* C16: a SendPassword handled while a password token is held makes exactly one
\* check_password call, with that token, and the token is none from then on,
\* whether the call succeeds (one LoggedIn) or fails (one Error, the table state
\* is the one before); handled while no token is held it makes no remote call
\* and emits exactly one Error.
C16_PasswordTokenConsumed ==
    action.type = "SendPassword"
        => /\ password_token = None
           /\ pre.password_token # None =>
                 /\ pc \in {"check_password", "send", "recv"}
                 /\ calls = <<[op |-> "check_password", arg |-> pre.password_token,
                               result |-> calls[1].result]>>
                 /\ pc = "check_password" => calls[1].result = "Pending" /\ Produced = <<>>
                 /\ pc # "check_password" => calls[1].result \in {"Ok", "Err"}
                 /\ calls[1].result = "Ok" => Produced = <<Event("LoggedIn")>>
                 /\ calls[1].result = "Err" =>
                       /\ Produced = <<ErrorEvent(RemoteError)>>
                       /\ auth = pre.auth
           /\ pre.password_token = None =>
                 /\ calls = <<>>
                 /\ Len(Produced) = 1
                 /\ Produced[1].type = "Error"
                 /\ auth = pre.auth

C16_Witness ==
    /\ Completed("SendPassword")
    /\ pre.password_token # None
    /\ pre.auth = "AwaitingPassword"
    /\ calls[1].result = "Err"
    /\ LastEmitted("Error")

\* The coordinator is in the configuration loop or sending its Configured.
Configuring == {"wait_config", "send_not_configured", "send_configured"}

\* C19: is_authorized is queried once, right after Configured has been sent for
\* the accepted Configure, and the configuration phase is never entered again;
\* if it returns true LoggedIn is sent next, with no other remote call in
\* between; and every other LoggedIn, and so every other entry into
\* Authenticated, follows a sign_in or check_password that returned Ok.
C19_StartupShortcut ==
    /\ [](\A i \in 1..Len(calls) : calls[i].op = "is_authorized" =>
              /\ action.type = "Configure"
              /\ Len(calls) = 1
              /\ emitted # <<>> /\ emitted[1] = Event("Configured")
              /\ calls[1].result = "true" => Produced = <<Event("Configured"), Event("LoggedIn")>>
              /\ calls[1].result # "true" => Produced = <<Event("Configured")>> /\ pc = "recv")
    /\ [](out.type = "LoggedIn" \/ LastEmitted("LoggedIn") =>
              /\ calls # <<>>
              /\ \/ calls[Len(calls)].op = "is_authorized" /\ calls[Len(calls)].result = "true"
                 \/ calls[Len(calls)].op \in {"sign_in", "check_password"}
                      /\ calls[Len(calls)].result = "Ok")
    /\ [][/\ (pc' = "is_authorized" /\ pc # "is_authorized")
               => pc = "send_configured" /\ out = Event("Configured")
          /\ pc' \in Configuring => pc \in Configuring
          /\ (auth' = "Authenticated" /\ auth # "Authenticated") => out'.type = "LoggedIn"]_vars

C19_Witness ==
    /\ Completed("Configure")
    /\ calls = <<[op |-> "is_authorized", arg |-> 0, result |-> "true"]>>
    /\ emitted = <<Event("Configured"), Event("LoggedIn")>>
    /\ auth = "Authenticated"

\* The coordinator is at rx.recv().await, in either loop.
Receiving == pc \in {"wait_config", "recv"}

-----------------------------------------------------------------------------
(* Properties of the whole program.                                           *)


\* C8: every LoggedIn event is eventually followed by a ChatsLoaded event of at most
\* DialogCap entries, without the user issuing any intent.
C8_AutoRefresh ==
    LastEmitted("LoggedIn") ~>
        (LastEmitted("ChatsLoaded") /\ Len(emitted[Len(emitted)].chats) <= DialogCap)


\* The coordinator is at a tx.send(..).await.
Sending == pc \in {"send_not_configured", "send_configured", "send_logged_in", "send"}

\* C17: emitting an event never suspends the coordinator: whenever it is at a
\* tx.send(..).await the outbound channel has room, so the send completes at once
\* and the only places it waits at are rx.recv() and the remote call.
C17_SendNeverWaits == Sending => Len(bg_tx) < ChannelCapacity


\* C18: the presentation never blocks on the channels.  Some button can always
\* be clicked, and an event in the outbound channel can always be taken,
\* whatever the inbound channel holds and wherever the coordinator is; the
\* inbound channel never holds more than its capacity; and a step taken while it
\* is full leaves its contents as they are, unless the step is the coordinator
\* dequeuing its head: the intent issued is discarded.  So no state of the whole
\* program is a deadlock.
C18_PresentationNeverBlocks ==
    /\ [](/\ ENABLED User
          /\ bg_tx # <<>> => ENABLED HandleBackendEvent
          /\ Len(gui_tx) <= ChannelCapacity)
    /\ [][Len(gui_tx) = ChannelCapacity
             => (gui_tx' = gui_tx \/ (Dequeued /\ gui_tx' = Tail(gui_tx)))]_vars

C18_Witness ==
    /\ Len(gui_tx) = ChannelCapacity
    /\ pc = "iter_messages"
    /\ Outstanding # {}
    /\ state = "LoggedIn"
    /\ selected_chat # 0
    /\ bg_tx # <<>>

\* C20: whenever a chat is selected and the displayed message list is not empty,
\* the displayed messages were fetched for the selected chat.
C20_MessagesOfSelectedChat ==
    (selected_chat # 0 /\ messages # <<>>) => messages_chat = selected_chat


\* Both channels are empty and the coordinator is waiting for an intent.
Quiescent == gui_tx = <<>> /\ bg_tx = <<>> /\ pc \in {"wait_config", "recv"}

\* C21: whenever the program is quiescent the login screen agrees with the
\* coordinator: on the LoginCode screen a login token is held and on the
\* LoginPassword screen a password token is held, so the intent the screen
\* offers is not refused for a missing token.
C21_ScreenHasItsToken ==
    Quiescent => /\ state = "LoginCode" => login_token # None
                 /\ state = "LoginPassword" => password_token # None

=============================================================================
